---- MODULE Spec2Model ----
(***************************************************************************)
(* Model of the quiz chain solver (QuizSolver in quiz_solver.py) and of    *)
(* its answer formatter.                                                   *)
(*                                                                         *)
(* One chain run is a coroutine; pc names the external call that is in     *)
(* flight (render, parse, download, answer, submit) or the loop condition  *)
(* about to be evaluated.  Each action is the return (or failure) of the   *)
(* call in flight followed by all the synchronous code up to the next call.*)
(* The outcomes of the external services are drawn from small sets.        *)
(***************************************************************************)
EXTENDS Integers, Sequences, FiniteSets, TLC

VARIABLES
    pc,           \* position of the chain coroutine
    now,          \* the wall clock, time.time(), in seconds
    start_time,   \* solve_quiz_chain: start_time
    current_url,  \* solve_quiz_chain: current_url
    results,      \* solve_quiz_chain: results
    quiz_info,    \* solve_single_quiz: quiz_info (the parsed description)
    file_data,    \* solve_single_quiz: file_data (number of payloads held)
    answer,       \* solve_single_quiz: answer (formatted)
    raised,       \* an exception left solve_quiz_chain
    stop,         \* why the loop ended
    iter,         \* history: iterations started
    iter_start,   \* history: clock when the current iteration started
    render_url,   \* history: argument of the last render call
    visited,      \* history: URLs rendered, in order
    submits,      \* history: responses of the completed submit calls
    calls,        \* history: the external calls of the iteration, in order
    email,        \* solve_quiz_chain: email
    secret,       \* solve_quiz_chain: secret
    err,          \* history: the step whose error ended the loop
    fmt_pc,       \* format_answer called on its own: "call" or "done"
    fmt_text,     \* format_answer: answer_text
    fmt_format,   \* format_answer: answer_format
    fmt_result,   \* format_answer: what the call returned or raised
    app_pc,       \* handle_quiz: "received", "solving" (the chain runs) or "responded"
    app_body,     \* handle_quiz: the body of the request
    app_status,   \* handle_quiz: the status of the response
    app_calls,    \* history: calls of quiz_solver.solve_quiz_chain
    app_args,     \* history: the arguments of the last such call
    frames,       \* chains side by side: start_time, current_url, results of each
    chain_pc,     \* chains side by side: where each invocation is
    chain_args,   \* chains side by side: email and initial_url of each
    chain_own,    \* history: when each began, the responses to its submissions
    chain_ret     \* history: what each returned

chainvars == <<pc, now, start_time, current_url, results, quiz_info, file_data,
               answer, raised, stop, iter, iter_start, render_url, visited,
               submits, calls, email, secret, err>>
fmtvars == <<fmt_pc, fmt_text, fmt_format, fmt_result>>
appvars == <<app_pc, app_body, app_status, app_calls, app_args>>
twovars == <<frames, chain_pc, chain_args, chain_own, chain_ret>>
vars == <<chainvars, fmtvars, appvars, twovars>>

(***************************************************************************)
(* Bounds of the model.                                                    *)
(***************************************************************************)
MaxIter == 3
\* longest text format_answer is given, beside the listed ones
MaxLen == 3

\* Python's None, and the value of a key a dict does not have (dict.get).
None == "None"

\* QuizSolver.__init__: self.max_time
max_time == 180

\* Time an external call may take, in seconds.
Durations == {0, 90}

Urls == {"u1", "u2"}
\* the configured secret of app.py: os.getenv('SECRET_KEY', ...)
SECRET == "key"
Emails == {"e1", "e2"}
FileUrls == {<<>>, <<"f1", "f2">>}
SubmitUrls == {"s1", "", None}

\* Python truthiness of the values the chain tests: None, the empty string
\* and False are falsy ("false" encodes the JSON boolean false).
Truthy(v) == v \notin {None, "", "false"}

(***************************************************************************)
(* Text.  A Python str is a sequence of one-character strings.             *)
(***************************************************************************)
DigitChars == <<"0", "1", "2", "3", "4", "5", "6", "7", "8", "9">>
UpperChars == <<"A", "B", "C", "D", "E", "F", "G", "H", "I", "J", "K", "L", "M",
                "N", "O", "P", "Q", "R", "S", "T", "U", "V", "W", "X", "Y", "Z">>
LowerChars == <<"a", "b", "c", "d", "e", "f", "g", "h", "i", "j", "k", "l", "m",
                "n", "o", "p", "q", "r", "s", "t", "u", "v", "w", "x", "y", "z">>

\* re: \d
IsDigit(c) == \E i \in 1..10 : DigitChars[i] = c
DigitVal(c) == (CHOOSE i \in 1..10 : DigitChars[i] = c) - 1

\* str.lower()
LowerChar(c) ==
    IF \E i \in 1..26 : UpperChars[i] = c
    THEN LowerChars[CHOOSE i \in 1..26 : UpperChars[i] = c]
    ELSE c
Lower(s) == [i \in 1..Len(s) |-> LowerChar(s[i])]

Last(s) == s[Len(s)]

\* needle in hay
Contains(hay, needle) ==
    \E i \in 0..(Len(hay) - Len(needle)) :
        \A j \in 1..Len(needle) : hay[i + j] = needle[j]

(***************************************************************************)
(* Unbounded naturals (Python int) as sequences of decimal digits, most    *)
(* significant first, <<0>> for zero.  The operators split their argument  *)
(* in halves, so that the depth of the recursion is logarithmic.           *)
(***************************************************************************)
IsZero(d) == \A i \in 1..Len(d) : d[i] = 0
IsOdd(d) == d[Len(d)] % 2 = 1

\* d without leading zeros
Strip(d) ==
    IF IsZero(d) THEN <<0>>
    ELSE LET f == CHOOSE i \in 1..Len(d) : d[i] # 0 /\ \A j \in 1..(i - 1) : d[j] = 0
         IN  SubSeq(d, f, Len(d))

\* d[lo..hi] with carry in front, divided by k: quotient digits and remainder
RECURSIVE DivRange(_, _, _, _, _)
DivRange(d, k, lo, hi, carry) ==
    IF lo > hi \/ carry < 0 THEN [q |-> <<>>, r |-> carry]
    ELSE IF lo = hi
    THEN LET cur == carry * 10 + d[lo]
         IN  [q |-> <<cur \div k>>, r |-> cur % k]
    ELSE LET mid == (lo + hi) \div 2
             L == DivRange(d, k, lo, mid, carry)
             R == DivRange(d, k, mid + 1, hi, L.r)
         IN  [q |-> L.q \o R.q, r |-> R.r]

\* d \div k and d % k, for 0 < k <= 2^24
DivSmall(d, k) ==
    LET x == DivRange(d, k, 1, Len(d), 0) IN [q |-> Strip(x.q), r |-> x.r]

\* the decimal digits of a small number
RECURSIVE SmallDigits(_)
SmallDigits(n) == IF n < 10 THEN <<n>> ELSE Append(SmallDigits(n \div 10), n % 10)

\* k * d[lo..hi] + carry: the digits at lo..hi and the carry out in front
RECURSIVE MulRange(_, _, _, _, _)
MulRange(d, k, lo, hi, carry) ==
    IF lo > hi \/ carry < 0 THEN [p |-> <<>>, c |-> carry]
    ELSE IF lo = hi
    THEN LET cur == k * d[lo] + carry
         IN  [p |-> <<cur % 10>>, c |-> cur \div 10]
    ELSE LET mid == (lo + hi) \div 2
             R == MulRange(d, k, mid + 1, hi, carry)
             L == MulRange(d, k, lo, mid, R.c)
         IN  [p |-> L.p \o R.p, c |-> L.c]

\* k * d, for 0 < k <= 2^24
MulSmall(d, k) ==
    LET x == MulRange(d, k, 1, Len(d), 0) IN Strip(SmallDigits(x.c) \o x.p)

\* d + 1
Inc(d) ==
    IF \A i \in 1..Len(d) : d[i] = 9 THEN <<1>> \o [i \in 1..Len(d) |-> 0]
    ELSE LET j == CHOOSE i \in 1..Len(d) :
                      d[i] # 9 /\ \A m \in (i + 1)..Len(d) : d[m] = 9
         IN  [i \in 1..Len(d) |-> IF i < j THEN d[i] ELSE IF i = j THEN d[i] + 1 ELSE 0]

\* d * 2^n
RECURSIVE Shl(_, _)
Shl(d, n) ==
    IF n = 0 \/ Len(d) = 0 THEN d
    ELSE IF n >= 24 THEN Shl(MulSmall(d, 2 ^ 24), n - 24)
    ELSE MulSmall(d, 2 ^ n)

\* d \div 2^n for n > 0, the last bit shifted out (guard) and whether a
\* lower one was set (sticky)
RECURSIVE Shr(_, _, _)
Shr(d, n, sticky) ==
    IF n > 24 /\ Len(d) > 0 /\ sticky \in BOOLEAN
    THEN LET h == DivSmall(d, 2 ^ 24) IN Shr(h.q, n - 24, sticky \/ h.r # 0)
    ELSE LET h == DivSmall(d, 2 ^ n)
         IN  [v |-> h.q,
              guard |-> h.r \div (2 ^ (n - 1)),
              sticky |-> sticky \/ (h.r % (2 ^ (n - 1))) # 0]

\* -1, 0, 1 as a < b, a = b, a > b (both without leading zeros)
Cmp(a, b) ==
    IF Len(a) < Len(b) THEN -1
    ELSE IF Len(a) > Len(b) THEN 1
    ELSE IF a = b THEN 0
    ELSE LET f == CHOOSE i \in 1..Len(a) : a[i] # b[i] /\ \A j \in 1..(i - 1) : a[j] = b[j]
         IN  IF a[f] < b[f] THEN -1 ELSE 1

\* the value of a short digit sequence
RECURSIVE ToInt(_)
ToInt(d) == IF Len(d) = 0 THEN 0 ELSE 10 * ToInt(SubSeq(d, 1, Len(d) - 1)) + d[Len(d)]

\* number of binary digits of d (0 for zero)
RECURSIVE BitLen(_)
BitLen(d) ==
    IF Len(Strip(d)) > 7 THEN 24 + BitLen(DivSmall(d, 2 ^ 24).q)
    ELSE LET v == ToInt(Strip(d))
         IN  CHOOSE b \in 0..24 : v < 2 ^ b /\ (b = 0 \/ v >= 2 ^ (b - 1))

(***************************************************************************)
(* float() and int(): a Python float is an IEEE 754 binary64.  float(tok)  *)
(* is the double nearest to the decimal tok (ties to even), int() cuts its *)
(* fraction and raises OverflowError on an infinity.                       *)
(***************************************************************************)
\* bits of the significand of a binary64
MantBits == 53
\* 2^MaxExp is the least magnitude that is no finite binary64
MaxExp == 1024

TwoPowMant == Shl(<<1>>, MantBits)
TenPow(n) == <<1>> \o [i \in 1..n |-> 0]

\* the double nearest to I.F for I >= 2^MantBits (an integer)
RoundLarge(I, F) ==
    LET shift == BitLen(I) - MantBits
        s == Shr(I, shift, ~IsZero(F))
        up == s.guard = 1 /\ (s.sticky \/ IsOdd(s.v))
    IN  Shl(IF up THEN Inc(s.v) ELSE s.v, shift)

\* for I < 2^MantBits: the double nearest to I.F is I + 1 (not below it)
RoundsUp(I, F) ==
    /\ Len(F) > 0
    /\ LET b == BitLen(I)
           C == Strip(Inc([i \in 1..Len(F) |-> 9 - F[i]]))
           c == Cmp(Shl(C, MantBits + 1 - b), TenPow(Len(F)))
       IN  c < 0 \/ (c = 0 /\ (b < MantBits \/ IsOdd(I)))

\* int(float(tok)) for tok = [-]I[.F], ok = FALSE for OverflowError
IntOfFloat(neg, I, F) ==
    LET mag == IF Cmp(I, TwoPowMant) >= 0 THEN RoundLarge(I, F)
               ELSE IF RoundsUp(I, F) THEN Inc(I)
               ELSE I
        inf == BitLen(mag) > MaxExp
    IN  [ok |-> ~inf, neg |-> neg /\ ~IsZero(mag), mag |-> mag]

(***************************************************************************)
(* re.findall(r'-?\d+\.?\d*', text): the leftmost match.                   *)
(***************************************************************************)
StartsMatch(t, i) ==
    \/ IsDigit(t[i])
    \/ t[i] = "-" /\ i < Len(t) /\ IsDigit(t[i + 1])

HasNumber(t) == \E i \in 1..Len(t) : StartsMatch(t, i)

\* the first index from i on that holds no digit
DigitsEnd(t, i) ==
    CHOOSE e \in i..(Len(t) + 1) :
        /\ \A j \in i..(e - 1) : IsDigit(t[j])
        /\ (e <= Len(t) => ~IsDigit(t[e]))

DigitsOf(s) == [i \in 1..Len(s) |-> DigitVal(s[i])]

\* numbers[0]: its sign, the digits before and after the point, its text
FirstNumber(t) ==
    LET s == CHOOSE i \in 1..Len(t) :
                 StartsMatch(t, i) /\ \A j \in 1..(i - 1) : ~StartsMatch(t, j)
        neg == t[s] = "-"
        a == IF neg THEN s + 1 ELSE s
        b == DigitsEnd(t, a)
        dot == b <= Len(t) /\ t[b] = "."
        c == IF dot THEN DigitsEnd(t, b + 1) ELSE b
    IN  [neg |-> neg,
         int |-> Strip(DigitsOf(SubSeq(t, a, b - 1))),
         frac |-> IF dot THEN DigitsOf(SubSeq(t, b + 1, c - 1)) ELSE <<>>,
         token |-> SubSeq(t, s, c - 1)]

(***************************************************************************)
(* Values.  An answer_format is None, a str or another JSON value (the     *)
(* parse result is not validated); an answer is an int, a bool, a decoded  *)
(* JSON value or a str.                                                    *)
(***************************************************************************)
FmtNone == [t |-> "null"]
FmtStr(s) == [t |-> "str", s |-> s]
FmtList(s) == [t |-> "list", s |-> s]

\* the local `answer` of solve_single_quiz while line 258 has not bound it
NoAnswer == [type |-> "none"]
PyInt(neg, mag) == [type |-> "int", neg |-> neg, mag |-> mag]
PyBool(b) == [type |-> "bool", val |-> b]
PyStr(t) == [type |-> "str", text |-> t]
PyJson(v) == [type |-> "json", val |-> v]


\* the words format_answer looks for
W_number == <<"n", "u", "m", "b", "e", "r">>
W_int == <<"i", "n", "t">>
W_boolean == <<"b", "o", "o", "l", "e", "a", "n">>
W_bool == <<"b", "o", "o", "l">>
W_json == <<"j", "s", "o", "n">>
W_object == <<"o", "b", "j", "e", "c", "t">>
W_true == <<"t", "r", "u", "e">>
W_yes == <<"y", "e", "s">>
W_false == <<"f", "a", "l", "s", "e">>
W_no == <<"n", "o">>
W_null == <<"n", "u", "l", "l">>
W_NaN == <<"N", "a", "N">>
W_Infinity == <<"I", "n", "f", "i", "n", "i", "t", "y">>

\* `not answer_format`
FmtFalsy(f) == f.t = "null" \/ Len(f.s) = 0

\* json whitespace
JsonSpace == {" ", "\t", "\n", "\r"}

\* text.strip of JSON whitespace: json.loads skips it on both sides
JsonTrim(t) ==
    IF \A i \in 1..Len(t) : t[i] \in JsonSpace THEN <<>>
    ELSE LET a == CHOOSE i \in 1..Len(t) :
                      t[i] \notin JsonSpace /\ \A j \in 1..(i - 1) : t[j] \in JsonSpace
             b == CHOOSE i \in 1..Len(t) :
                      t[i] \notin JsonSpace /\ \A j \in (i + 1)..Len(t) : t[j] \in JsonSpace
         IN  SubSeq(t, a, b)

\* json.scanner NUMBER_RE (-?(?:0|[1-9]\d*))(\.\d+)?([eE][-+]?\d+)? at the
\* start of t, group by group: the first index each group leaves
JsonIntEnd(t, a) ==
    IF a <= Len(t) /\ t[a] = "0" THEN a + 1 ELSE DigitsEnd(t, a)
JsonFracEnd(t, b) ==
    IF b <= Len(t) /\ t[b] = "." /\ DigitsEnd(t, b + 1) > b + 1
    THEN DigitsEnd(t, b + 1)
    ELSE b
JsonExpStart(t, c) ==
    IF c + 1 <= Len(t) /\ t[c + 1] \in {"+", "-"} THEN c + 2 ELSE c + 1
JsonExpEnd(t, c) ==
    IF c <= Len(t) /\ t[c] \in {"e", "E"} /\ DigitsEnd(t, JsonExpStart(t, c)) > JsonExpStart(t, c)
    THEN DigitsEnd(t, JsonExpStart(t, c))
    ELSE c

\* the match of NUMBER_RE at the start of t
JsonNumber(t) ==
    LET neg == Len(t) > 0 /\ t[1] = "-"
        a == IF neg THEN 2 ELSE 1
        b == JsonIntEnd(t, a)
        c == JsonFracEnd(t, b)
    IN  [matched |-> b > a,
         end |-> JsonExpEnd(t, c),
         integer |-> c = b /\ JsonExpEnd(t, c) = c,
         neg |-> neg,
         int |-> SubSeq(t, a, b - 1)]

\* the match of NUMBER_RE at index i of t
JsonNumberAt(t, i) ==
    LET n == JsonNumber(SubSeq(t, i, Len(t)))
        lit == SubSeq(t, i, i + n.end - 2)
    IN  [ok |-> n.matched,
         end |-> i + n.end - 1,
         val |-> IF n.integer
                 THEN [k |-> "int",
                       neg |-> n.neg /\ ~IsZero(DigitsOf(n.int)),
                       mag |-> Strip(DigitsOf(n.int))]
                 ELSE [k |-> "float", lit |-> lit],
         std |-> TRUE]

\* the first index from i on that holds no whitespace
SkipSpace(t, i) ==
    CHOOSE e \in i..(Len(t) + 1) :
        /\ \A j \in i..(e - 1) : t[j] \in JsonSpace
        /\ (e <= Len(t) => t[e] \notin JsonSpace)

\* word w stands in t at index i
WordAt(t, i, w) == i + Len(w) - 1 <= Len(t) /\ SubSeq(t, i, i + Len(w) - 1) = w

JsonFail == [ok |-> FALSE, end |-> 0, val |-> [k |-> "null"], std |-> TRUE]
JsonOk(e, v, std) == [ok |-> TRUE, end |-> e, val |-> v, std |-> std]

\* the literals and numbers json.scanner knows, in its order; std is FALSE
\* for NaN, Infinity and -Infinity, which json.loads decodes to floats and
\* which are no JSON
JsonScalar(t, i) ==
    IF WordAt(t, i, W_null) THEN JsonOk(i + 4, [k |-> "null"], TRUE)
    ELSE IF WordAt(t, i, W_true) THEN JsonOk(i + 4, [k |-> "bool", b |-> TRUE], TRUE)
    ELSE IF WordAt(t, i, W_false) THEN JsonOk(i + 5, [k |-> "bool", b |-> FALSE], TRUE)
    ELSE IF JsonNumberAt(t, i).ok THEN JsonNumberAt(t, i)
    ELSE IF WordAt(t, i, W_NaN) THEN JsonOk(i + 3, [k |-> "float", lit |-> W_NaN], FALSE)
    ELSE IF WordAt(t, i, W_Infinity)
    THEN JsonOk(i + 8, [k |-> "float", lit |-> W_Infinity], FALSE)
    ELSE IF WordAt(t, i, <<"-">> \o W_Infinity)
    THEN JsonOk(i + 9, [k |-> "float", lit |-> <<"-">> \o W_Infinity], FALSE)
    ELSE JsonFail

\* json.decoder: the characters of a string.  A decoded character is a
\* one-character string; the character of a \u escape outside printable
\* ASCII, and the grave accent, is written as its escape, "\uxxxx" in
\* lower case.
HexChars == <<"0", "1", "2", "3", "4", "5", "6", "7", "8", "9",
              "a", "b", "c", "d", "e", "f">>
IsHex(c) == \E i \in 1..16 : HexChars[i] = LowerChar(c)
HexVal(c) == (CHOOSE i \in 1..16 : HexChars[i] = LowerChar(c)) - 1
Ascii ==
    <<" ", "!", "\"", "#", "$", "%", "&", "'", "(", ")", "*", "+", ",", "-", ".", "/",
      "0", "1", "2", "3", "4", "5", "6", "7", "8", "9", ":", ";", "<", "=", ">", "?",
      "@", "A", "B", "C", "D", "E", "F", "G", "H", "I", "J", "K", "L", "M", "N", "O",
      "P", "Q", "R", "S", "T", "U", "V", "W", "X", "Y", "Z", "[", "\\", "]", "^", "_",
      "\\u0060", "a", "b", "c", "d", "e", "f", "g", "h", "i", "j", "k", "l", "m", "n", "o",
      "p", "q", "r", "s", "t", "u", "v", "w", "x", "y", "z", "{", "|", "}", "~">>
AsciiFirst == 32
AsciiLast == 126
HexBase == 16
EscapedChar(h) ==
    "\\u" \o LowerChar(h[1]) \o LowerChar(h[2]) \o LowerChar(h[3]) \o LowerChar(h[4])
\* the character of \uXXXX, h the four hex digits
UnicodeEscape(h) ==
    LET code == ((HexVal(h[1]) * HexBase + HexVal(h[2])) * HexBase + HexVal(h[3])) * HexBase
                    + HexVal(h[4])
    IN  IF code >= AsciiFirst /\ code <= AsciiLast THEN Ascii[code - AsciiFirst + 1]
        ELSE IF code = 9 THEN "\t"
        ELSE IF code = 10 THEN "\n"
        ELSE IF code = 12 THEN "\f"
        ELSE IF code = 13 THEN "\r"
        ELSE EscapedChar(h)
\* BACKSLASH of json.decoder: the character after the backslash
SimpleEscapes == {"\"", "\\", "/", "b", "f", "n", "r", "t"}
SimpleEscape(c) ==
    CASE c = "b" -> EscapedChar(<<"0", "0", "0", "8">>)
      [] c = "f" -> "\f"
      [] c = "n" -> "\n"
      [] c = "r" -> "\r"
      [] c = "t" -> "\t"
      [] OTHER -> c
\* strict mode: a string holds no raw control character
JsonControl == {"\t", "\n", "\r", "\f"}

\* the one element of a singleton: { F(x) : x \in {e} } binds the value of e
\* for F, which then uses it several times
The(S) == CHOOSE x \in S : TRUE

JsonCons(c, r) == IF r.ok THEN [ok |-> TRUE, end |-> r.end, s |-> <<c>> \o r.s] ELSE r

\* scanstring: the string that goes on at index i, up to its closing quote
RECURSIVE JsonString(_, _)
JsonString(t, i) ==
    IF i > Len(t) THEN [ok |-> FALSE, end |-> 0, s |-> <<>>]
    ELSE IF t[i] = "\"" THEN [ok |-> TRUE, end |-> i + 1, s |-> <<>>]
    ELSE IF t[i] \in JsonControl THEN [ok |-> FALSE, end |-> 0, s |-> <<>>]
    ELSE IF t[i] # "\\" THEN The({JsonCons(t[i], r) : r \in {JsonString(t, i + 1)}})
    ELSE IF i + 1 > Len(t) THEN [ok |-> FALSE, end |-> 0, s |-> <<>>]
    ELSE IF t[i + 1] = "u"
    THEN IF i + 5 <= Len(t) /\ \A j \in 2..5 : IsHex(t[i + j])
         THEN The({JsonCons(UnicodeEscape(SubSeq(t, i + 2, i + 5)), r) :
                      r \in {JsonString(t, i + 6)}})
         ELSE [ok |-> FALSE, end |-> 0, s |-> <<>>]
    ELSE IF t[i + 1] \in SimpleEscapes
    THEN The({JsonCons(SimpleEscape(t[i + 1]), r) : r \in {JsonString(t, i + 2)}})
    ELSE [ok |-> FALSE, end |-> 0, s |-> <<>>]

\* a dict of the pairs, a later pair of a key replacing an earlier one
JsonDict(pairs) ==
    [k |-> "object",
     map |-> [key \in {pairs[n].key : n \in 1..Len(pairs)} |->
                 pairs[CHOOSE n \in 1..Len(pairs) :
                           /\ pairs[n].key = key
                           /\ \A m \in (n + 1)..Len(pairs) : pairs[m].key # key].val]]

\* what a string, the pairs of an object, the elements of an array decode to
JsonStringValue(r) ==
    IF r.ok THEN JsonOk(r.end, [k |-> "string", s |-> r.s], TRUE) ELSE JsonFail
JsonObjectValue(r) ==
    IF r.ok THEN JsonOk(r.end, JsonDict(r.val), r.std) ELSE JsonFail
JsonArrayValue(r) ==
    IF r.ok THEN JsonOk(r.end, [k |-> "array", items |-> r.val], r.std) ELSE JsonFail
\* x in front of the elements or pairs r
JsonPrepend(x, std, r) ==
    IF r.ok THEN JsonOk(r.end, <<x>> \o r.val, std /\ r.std) ELSE JsonFail

\* scan_once, JSONArray and JSONObject of json: the value at index i of t;
\* the elements of an array from index i on, up to its bracket; the pairs
\* of an object from the quote at index i on, up to its brace
RECURSIVE JsonValue(_, _), JsonElements(_, _), JsonPairs(_, _)

\* after '{' and whitespace, at index j
JsonObject(t, j) ==
    IF j <= Len(t) /\ t[j] = "}" THEN JsonOk(j + 1, JsonDict(<<>>), TRUE)
    ELSE The({JsonObjectValue(r) : r \in {JsonPairs(t, j)}})

\* after '[' and whitespace, at index j
JsonArray(t, j) ==
    IF j <= Len(t) /\ t[j] = "]" THEN JsonOk(j + 1, [k |-> "array", items |-> <<>>], TRUE)
    ELSE The({JsonArrayValue(r) : r \in {JsonElements(t, j)}})

JsonValue(t, i) ==
    IF i > Len(t) THEN JsonFail
    ELSE IF t[i] = "\"" THEN The({JsonStringValue(r) : r \in {JsonString(t, i + 1)}})
    ELSE IF t[i] = "{" THEN JsonObject(t, SkipSpace(t, i + 1))
    ELSE IF t[i] = "[" THEN JsonArray(t, SkipSpace(t, i + 1))
    ELSE JsonScalar(t, i)

\* after the element v and whitespace, at index j: ']' or ',' and the rest
JsonElementsNext(t, v, j) ==
    IF j > Len(t) THEN JsonFail
    ELSE IF t[j] = "]" THEN JsonOk(j + 1, <<v.val>>, v.std)
    ELSE IF t[j] = ","
    THEN The({JsonPrepend(v.val, v.std, r) : r \in {JsonElements(t, SkipSpace(t, j + 1))}})
    ELSE JsonFail

JsonElementsAfter(t, v) ==
    IF v.ok THEN The({JsonElementsNext(t, v, j) : j \in {SkipSpace(t, v.end)}})
    ELSE JsonFail

JsonElements(t, i) == The({JsonElementsAfter(t, v) : v \in {JsonValue(t, i)}})

\* after the pair and whitespace, at index j: '}' or ',' and the rest, which
\* starts with the quote of a key
JsonPairsNext(t, pair, std, j) ==
    IF j > Len(t) THEN JsonFail
    ELSE IF t[j] = "}" THEN JsonOk(j + 1, <<pair>>, std)
    ELSE IF t[j] = ","
    THEN The({JsonPrepend(pair, std, r) : r \in {JsonPairs(t, SkipSpace(t, j + 1))}})
    ELSE JsonFail

JsonPairsAfter(t, key, v) ==
    IF v.ok
    THEN The({JsonPairsNext(t, [key |-> key.s, val |-> v.val], v.std, j) :
                 j \in {SkipSpace(t, v.end)}})
    ELSE JsonFail

\* after the key and whitespace, at index j: ':' and the value
JsonPairsColon(t, key, j) ==
    IF j <= Len(t) /\ t[j] = ":"
    THEN The({JsonPairsAfter(t, key, v) : v \in {JsonValue(t, SkipSpace(t, j + 1))}})
    ELSE JsonFail

JsonPairsKey(t, key) ==
    IF key.ok THEN The({JsonPairsColon(t, key, j) : j \in {SkipSpace(t, key.end)}})
    ELSE JsonFail

JsonPairs(t, i) ==
    IF i > Len(t) \/ t[i] # "\"" THEN JsonFail
    ELSE The({JsonPairsKey(t, key) : key \in {JsonString(t, i + 1)}})

\* the document t, v the value at its start: nothing may follow it
JsonDocument(t, v) ==
    IF v.ok /\ v.end = Len(t) + 1
    THEN [ok |-> TRUE, val |-> v.val, std |-> v.std]
    ELSE [ok |-> FALSE, val |-> [k |-> "null"], std |-> FALSE]

\* json.loads(text): ok = FALSE for JSONDecodeError; std tells that the
\* text is a JSON document (it names no NaN or Infinity).  An integer
\* literal decodes to an int, another number to the float of its literal.
JsonLoads(text) ==
    The({JsonDocument(t, v) : t \in {JsonTrim(text)}, v \in {JsonValue(JsonTrim(text), 1)}})

Returned(v) == [raised |-> FALSE, value |-> v]
Raised == [raised |-> TRUE, value |-> PyStr(<<>>)]

\* the 'number' / 'int' branch: int(float(numbers[0])) if numbers
NumberBranch(answer_text) ==
    IF HasNumber(answer_text)
    THEN LET n == FirstNumber(answer_text)
             r == IntOfFloat(n.neg, n.int, n.frac)
         IN  IF r.ok THEN Returned(PyInt(r.neg, r.mag))
             ELSE Returned(PyStr(answer_text))    \* OverflowError: except, pass
    ELSE Returned(PyStr(answer_text))

\* faulty variant of the boolean branch: false / no looked for first
BooleanBranchFalseFirst(answer_text) ==
    LET answer_lower == Lower(answer_text)
    IN  IF Contains(answer_lower, W_false) \/ Contains(answer_lower, W_no)
        THEN Returned(PyBool(FALSE))
        ELSE IF Contains(answer_lower, W_true) \/ Contains(answer_lower, W_yes)
        THEN Returned(PyBool(TRUE))
        ELSE Returned(PyStr(answer_text))

\* the 'boolean' / 'bool' branch
BooleanBranch(answer_text) ==
    LET answer_lower == Lower(answer_text)
    IN  IF Contains(answer_lower, W_true) \/ Contains(answer_lower, W_yes)
        THEN Returned(PyBool(TRUE))
        ELSE IF Contains(answer_lower, W_false) \/ Contains(answer_lower, W_no)
        THEN Returned(PyBool(FALSE))
        ELSE Returned(PyStr(answer_text))

\* faulty variant of the json branch: the decode error is not caught
JsonBranchRaises(answer_text) ==
    LET r == JsonLoads(answer_text)
    IN  IF r.ok THEN Returned(PyJson(r.val)) ELSE Raised

\* the 'json' / 'object' branch
JsonBranch(answer_text) ==
    LET r == JsonLoads(answer_text)
    IN  IF r.ok THEN Returned(PyJson(r.val))
        ELSE Returned(PyStr(answer_text))         \* JSONDecodeError: except, pass

\* QuizSolver.format_answer
\* faulty variant: three if statements, a branch without a match falls to
\* the next one the format names
FormatAnswerFallsThrough(answer_text, answer_format) ==
    IF FmtFalsy(answer_format) THEN Returned(PyStr(answer_text))
    ELSE IF answer_format.t # "str" THEN Raised
    ELSE LET f == Lower(answer_format.s)
             raw == Returned(PyStr(answer_text))
             n == IF Contains(f, W_number) \/ Contains(f, W_int)
                  THEN NumberBranch(answer_text) ELSE raw
             b == IF Contains(f, W_boolean) \/ Contains(f, W_bool)
                  THEN BooleanBranch(answer_text) ELSE raw
             j == IF Contains(f, W_json) \/ Contains(f, W_object)
                  THEN JsonBranch(answer_text) ELSE raw
         IN  IF n # raw THEN n ELSE IF b # raw THEN b ELSE j

format_answer(answer_text, answer_format) ==
    IF FmtFalsy(answer_format) THEN Returned(PyStr(answer_text))
    ELSE IF answer_format.t # "str" THEN Raised   \* .lower(): AttributeError
    ELSE LET f == Lower(answer_format.s)
         IN  IF Contains(f, W_number) \/ Contains(f, W_int)
             THEN NumberBranch(answer_text)
             ELSE IF Contains(f, W_boolean) \/ Contains(f, W_bool)
             THEN BooleanBranch(answer_text)
             ELSE IF Contains(f, W_json) \/ Contains(f, W_object)
             THEN JsonBranch(answer_text)
             ELSE Returned(PyStr(answer_text))

(***************************************************************************)
(* The outcomes of the external services.                                  *)
(***************************************************************************)
\* what the parse step may decode: question and submit_url may be missing,
\* file_urls missing or empty is <<>>
QuizInfos ==
    [question : {"q", None},
     file_urls : FileUrls,
     submit_url : SubmitUrls,
     answer_format : {FmtNone, FmtStr(W_int)}]

\* what the answer service may say
AnswerTexts == {<<"4", "2">>, <<"n", "o">>}

\* HTTP statuses of a download
Statuses == {200, 204, 404}

\* what response.json() may decode: an object with or without 'correct' and
\* 'url', or a JSON value that is no object
Responses ==
    [kind : {"dict"}, correct : {"true", "false", None}, url : Urls \cup {"", None}]
        \cup {[kind |-> "list", correct |-> None, url |-> None]}

(***************************************************************************)
(* solve_quiz_chain                                                        *)
(***************************************************************************)
\* faulty variants of the while condition: the budget included, no budget
LoopCondInclusive(url, elapsed) == Truthy(url) /\ elapsed <= max_time
LoopCondNoBudget(url, elapsed) == Truthy(url)

\* the while condition
LoopCondition(url, elapsed) == Truthy(url) /\ elapsed < max_time

\* faulty variants of the except clause: re-raise, go on with the loop
ChainExceptRaises == "raise"
ChainExceptContinues == "continue"

\* what the except clause of the loop does with an error
ChainExcept == "break"

\* faulty variant of the append: newest first
AppendResultFirst(rs, result) == <<result>> \o rs

\* results.append(result)
AppendResult(rs, result) == Append(rs, result)

\* faulty variants of the branches: a correct answer stays on its question, an
\* incorrect answer is tried again, a response without URL goes on
DecideCorrectStays(result, cur) ==
    IF Truthy(result.correct) /\ Truthy(result.url)
    THEN [next |-> "loop", url |-> cur, stop |-> "none"]
    ELSE IF Truthy(result.url)
    THEN [next |-> "loop", url |-> result.url, stop |-> "none"]
    ELSE [next |-> "break", url |-> cur, stop |-> "incorrect"]
DecideIncorrectRetries(result, cur) ==
    IF Truthy(result.correct)
    THEN IF Truthy(result.url)
         THEN [next |-> "loop", url |-> result.url, stop |-> "none"]
         ELSE [next |-> "break", url |-> cur, stop |-> "complete"]
    ELSE IF Truthy(result.url)
         THEN [next |-> "loop", url |-> cur, stop |-> "none"]
         ELSE [next |-> "break", url |-> cur, stop |-> "incorrect"]
DecideNoUrlGoesOn(result, cur) ==
    IF Truthy(result.url)
    THEN [next |-> "loop", url |-> result.url, stop |-> "none"]
    ELSE [next |-> "loop", url |-> cur, stop |-> "none"]

\* the branches after results.append: where the loop goes
Decide(result, cur) ==
    IF Truthy(result.correct)
    THEN IF Truthy(result.url)
         THEN [next |-> "loop", url |-> result.url, stop |-> "none"]
         ELSE [next |-> "break", url |-> cur, stop |-> "complete"]
    ELSE IF Truthy(result.url)
         THEN [next |-> "loop", url |-> result.url, stop |-> "none"]
         ELSE [next |-> "break", url |-> cur, stop |-> "incorrect"]

\* download_file: the status that is a success
DownloadOk(status) == status = 200

\* faulty variant: a download that fails is left out and the next one made
OnDownloadErrorSkips == "skip"

\* lines 252-254: nothing catches the error of a download in the loop
OnDownloadError == "raise"

\* faulty variant of the submission: the submit URL as the url of the body
SubmitCallOwnUrl(submit_url, email_, secret_, quiz_url, answer_) ==
    [to |-> submit_url,
     email |-> email_, secret |-> secret_, url |-> submit_url, answer |-> answer_]

\* submit_answer: where the payload is posted, and the payload
SubmitCall(submit_url, email_, secret_, quiz_url, answer_) ==
    [to |-> submit_url,
     email |-> email_, secret |-> secret_, url |-> quiz_url, answer |-> answer_]

\* download_file raised before there was a response
NoResponse == 0

\* a call as the history keeps it: in flight ("pending") until it returns
\* ("ok", out is what it returned) or raises ("failed")
Call(step, arg) == [step |-> step, arg |-> arg, state |-> "pending", out |-> None]
\* cs when its last call, the one in flight, returns out / raises
CallReturned(cs, out) == [cs EXCEPT ![Len(cs)].state = "ok", ![Len(cs)].out = out]
CallFailed(cs, out) == [cs EXCEPT ![Len(cs)].state = "failed", ![Len(cs)].out = out]
\* the downloads made so far in the iteration
Fetched(cs) == Cardinality({i \in 1..Len(cs) : cs[i].step = "fetch"})

\* faulty variant of the error path: the step that failed is made again
OnErrorRetries(step, cs) ==
    /\ calls' = Append(cs, Call(Last(cs).step, Last(cs).arg))
    /\ UNCHANGED <<err, quiz_info, file_data, answer, pc, raised, stop>>

\* an error of step `step` leaves solve_single_quiz (its locals are gone) and
\* reaches the except clause of the loop; cs is the history with the error
OnError(step, cs) ==
    /\ err' = step
    /\ calls' = cs
    /\ quiz_info' = None
    /\ file_data' = <<>>
    /\ answer' = NoAnswer
    /\ pc' = IF ChainExcept = "continue" THEN "Loop" ELSE "Terminated"
    /\ raised' = (ChainExcept = "raise")
    /\ stop' = IF ChainExcept = "continue" THEN stop ELSE "error"

\* the invocations of solve_quiz_chain that run side by side
Chains == {1, 2}
\* the locals of lines 275-277 before they are bound
NoFrame == [start_time |-> 0, current_url |-> None, results |-> <<>>]
\* no invocation has begun
NoChains ==
    /\ frames = [c \in Chains |-> NoFrame]
    /\ chain_pc = [c \in Chains |-> "idle"]
    /\ chain_args = [c \in Chains |-> [email |-> None, url |-> None]]
    /\ chain_own = [c \in Chains |-> [began |-> 0, own |-> <<>>]]
    /\ chain_ret = [c \in Chains |-> [done |-> FALSE, results |-> <<>>]]

\* faulty variant of the budget: the time of the last iteration only
ElapsedOfIteration == now - iter_start

Elapsed == now - start_time

Init ==
    /\ pc = "Loop"
    /\ now = 0
    /\ start_time = 0
    /\ current_url \in Urls \cup {"", None}
    /\ results = <<>>
    /\ quiz_info = None
    /\ file_data = <<>>
    /\ answer = NoAnswer
    /\ raised = FALSE
    /\ stop = "none"
    /\ iter = 0
    /\ iter_start = 0
    /\ render_url = None
    /\ visited = <<>>
    /\ submits = <<>>
    /\ calls = <<>>
    /\ email \in Emails
    /\ secret = SECRET
    /\ err = "none"
    /\ fmt_pc = "idle"
    /\ fmt_text = <<>>
    /\ fmt_format = FmtNone
    /\ fmt_result = None
    /\ app_pc = "idle"
    /\ app_body = None
    /\ app_status = None
    /\ app_calls = 0
    /\ app_args = None
    /\ NoChains

\* line 279: the loop condition; the body starts with the render call
LoopGuard ==
    /\ pc = "Loop"
    /\ IF LoopCondition(current_url, Elapsed)
       THEN /\ iter < MaxIter
            /\ pc' = "Rendering"
            /\ render_url' = current_url
            /\ visited' = Append(visited, current_url)
            /\ iter' = iter + 1
            /\ iter_start' = now
            /\ calls' = <<Call("render", current_url)>>
            /\ stop' = stop
       ELSE /\ pc' = "Terminated"
            /\ stop' = IF Truthy(current_url) THEN "budget" ELSE "no_url"
            /\ UNCHANGED <<render_url, visited, iter, iter_start, calls>>
    /\ UNCHANGED <<now, start_time, current_url, results, quiz_info, file_data,
                   answer, raised, submits, email, secret, err, fmtvars, appvars, twovars>>

\* render_page returns or raises; then parse_quiz_with_llm is called
RenderReturn ==
    /\ pc = "Rendering"
    /\ \E d \in Durations, ok \in BOOLEAN :
        /\ now' = now + d
        /\ IF ok
           THEN /\ pc' = "Parsing"
                /\ calls' = Append(CallReturned(calls, "page"), Call("parse", "page"))
                /\ UNCHANGED <<raised, stop, err, quiz_info, file_data, answer>>
           ELSE OnError("render", CallFailed(calls, None))
    /\ UNCHANGED <<start_time, current_url, results, iter, iter_start, render_url,
                   visited, submits, email, secret, fmtvars, appvars, twovars>>

\* lines 249-258 with fd the payloads held and cs the history: the next
\* download, or the answer call with the payloads
FetchGoesOn(qi, fd, cs) ==
    /\ file_data' = fd
    /\ IF Fetched(calls) < Len(qi.file_urls)
       THEN /\ pc' = "Fetching"
            /\ calls' = Append(cs, Call("fetch", qi.file_urls[Fetched(calls) + 1]))
       ELSE /\ pc' = "Answering"
            /\ calls' = Append(cs, Call("answer", fd))

\* parse_quiz_with_llm returns or raises; then the first download, or the
\* answer call when there is nothing to download
ParseReturn ==
    /\ pc = "Parsing"
    /\ \E d \in Durations :
        /\ now' = now + d
        /\ \/ OnError("parse", CallFailed(calls, None))
           \/ \E qi \in QuizInfos :
                /\ quiz_info' = qi
                /\ FetchGoesOn(qi, <<>>, CallReturned(calls, qi))
                /\ UNCHANGED <<raised, stop, err, answer>>
    /\ UNCHANGED <<start_time, current_url, results, iter, iter_start, render_url,
                   visited, submits, email, secret, fmtvars, appvars, twovars>>

\* a download failed: its status is no success, or it raised
FetchFails(status) ==
    IF OnDownloadError = "raise" THEN OnError("fetch", CallFailed(calls, status))
    ELSE /\ FetchGoesOn(quiz_info, file_data, CallFailed(calls, status))
         /\ UNCHANGED <<raised, stop, err, quiz_info, answer>>

\* download_file of the next file URL returns or raises
FetchReturn ==
    /\ pc = "Fetching"
    /\ \E d \in Durations :
        /\ now' = now + d
        /\ \/ \E status \in Statuses :
                IF DownloadOk(status)
                THEN /\ FetchGoesOn(quiz_info, Append(file_data, Last(calls).arg),
                                     CallReturned(calls, status))
                     /\ UNCHANGED <<raised, stop, err, quiz_info, answer>>
                ELSE FetchFails(status)
           \/ FetchFails(NoResponse)
    /\ UNCHANGED <<start_time, current_url, results, iter, iter_start, render_url,
                   visited, submits, email, secret, fmtvars, appvars, twovars>>

\* solve_with_llm: the completion returns or raises, the text is formatted;
\* then submit_answer is called with quiz_info.get('submit_url')
AnswerReturn ==
    /\ pc = "Answering"
    /\ \E d \in Durations :
        /\ now' = now + d
        /\ \/ \E text \in AnswerTexts :
                \E r \in {format_answer(text, quiz_info.answer_format)} :
                    IF quiz_info.question # None /\ ~r.raised
                    THEN /\ pc' = "Submitting"
                         /\ answer' = r.value
                         /\ calls' = Append(CallReturned(calls, text),
                                            Call("submit",
                                                 SubmitCall(quiz_info.submit_url, email,
                                                            secret, current_url, r.value)))
                         /\ UNCHANGED <<raised, stop, err, quiz_info, file_data>>
                    ELSE OnError("answer", CallFailed(calls, None))
           \/ OnError("answer", CallFailed(calls, None))
    /\ UNCHANGED <<start_time, current_url, results, iter, iter_start, render_url,
                   visited, submits, email, secret, fmtvars, appvars, twovars>>

\* submit_answer returns or raises; lines 283-305: append, decide
SubmitReturn ==
    /\ pc = "Submitting"
    /\ \E d \in Durations :
        /\ now' = now + d
        /\ \/ \E result \in Responses :
                /\ Truthy(quiz_info.submit_url)
                /\ results' = AppendResult(results, result)
                /\ submits' = Append(submits, [resp |-> result, quiz_url |-> current_url])
                /\ IF result.kind = "dict"
                   THEN LET dec == Decide(result, current_url)
                        IN  /\ current_url' = dec.url
                            /\ pc' = IF dec.next = "loop" THEN "Loop" ELSE "Terminated"
                            /\ stop' = dec.stop
                            /\ quiz_info' = None
                            /\ file_data' = <<>>
                            /\ answer' = NoAnswer
                            /\ calls' = <<>>
                            /\ UNCHANGED <<raised, err>>
                   ELSE /\ OnError("decide", CallReturned(calls, result))  \* result.get raises
                        /\ UNCHANGED current_url
           \/ /\ OnError("submit", CallFailed(calls, None))
              /\ UNCHANGED <<results, submits, current_url>>
    /\ UNCHANGED <<start_time, iter, iter_start, render_url, visited, email, secret,
                   fmtvars, appvars, twovars>>

Next ==
    \/ LoopGuard
    \/ RenderReturn
    \/ ParseReturn
    \/ FetchReturn
    \/ AnswerReturn
    \/ SubmitReturn

Spec == Init /\ [][Next]_vars

(***************************************************************************)
(* The chain when every iteration takes time and every call in flight      *)
(* returns or raises (its timeout): no bound on the number of iterations   *)
(* but the one the budget gives.                                           *)
(***************************************************************************)
\* the step that ends an iteration finds the clock after iter_start
PositiveIteration ==
    (pc \notin {"Loop", "Terminated"} /\ pc' \in {"Loop", "Terminated"}) =>
        now' > iter_start

NextLive ==
    \/ LoopGuard /\ PositiveIteration
    \/ RenderReturn /\ PositiveIteration
    \/ ParseReturn /\ PositiveIteration
    \/ FetchReturn /\ PositiveIteration
    \/ AnswerReturn /\ PositiveIteration
    \/ SubmitReturn /\ PositiveIteration

\* every step of the chain changes pc or makes a call
progress == <<pc, Len(calls)>>

\* the coroutine runs on: the loop condition is evaluated, and a call in
\* flight returns or raises
Fairness ==
    /\ WF_progress(LoopGuard)
    /\ WF_progress(RenderReturn)
    /\ WF_progress(ParseReturn)
    /\ WF_progress(FetchReturn)
    /\ WF_progress(AnswerReturn)
    /\ WF_progress(SubmitReturn)

SpecLive == Init /\ [][NextLive]_vars /\ Fairness

(***************************************************************************)
(* format_answer on its own: every text and format of the bounded sets.    *)
(***************************************************************************)
TextAlphabet == {"-", ".", "0", "7", "9", "x"}
ShortTexts == UNION {[1..n -> TextAlphabet] : n \in 0..MaxLen}
\* the texts of the JSON examples: {"count": 3} and not valid json{{
T_count == <<"{", "\"", "c", "o", "u", "n", "t", "\"", ":", " ", "3", "}">>
T_not_valid == <<"n", "o", "t", " ", "v", "a", "l", "i", "d", " ", "j", "s", "o", "n", "{", "{">>
LongTexts ==
    {<<"T", "h", "e", " ", "a", "n", "s", "w", "e", "r", " ", "i", "s", " ", "4", "2", ".">>,
     <<"a", "b", "o", "u", "t", " ", "-", "3", ".", "7", "5", " ", "o", "r", " ", "8">>,
     <<"9", "0", "0", "7", "1", "9", "9", "2", "5", "4", "7", "4", "0", "9", "9", "3">>,
     <<"2", ".", "9", "9", "9", "9", "9", "9", "9", "9", "9", "9", "9", "9", "9", "9", "9", "9">>,
     <<"Y", "e", "s", ",", " ", "t", "r", "u", "e">>,
     <<"Y", "e", "s", ",", " ", "t", "h", "a", "t", " ", "i", "s", " ", "t", "r", "u", "e", ".">>,
     <<"N", "o", "t", " ", "T", "R", "U", "E">>,
     <<"F", "a", "l", "s", "e">>,
     <<"u", "n", "k", "n", "o", "w", "n">>,
     <<"m", "a", "y", "b", "e">>,
     T_count,
     T_not_valid,
     <<" ", "[", "1", ",", " ", "\"", "a", "\\", "n", "\"", ",", " ", "n", "u", "l", "l", "]">>,
     W_NaN,
     <<"n", "u", "l", "l">>}
FmtTexts == ShortTexts \cup LongTexts
FmtFormats ==
    {FmtNone,
     FmtStr(<<>>),
     FmtStr(W_number),
     FmtStr(<<"I", "n", "t", "e", "g", "e", "r">>),
     FmtStr(W_boolean),
     FmtStr(<<"B", "o", "o", "l">>),
     FmtStr(W_json \o <<" ">> \o W_object),
     FmtStr(W_object),
     FmtStr(W_boolean \o <<" ">> \o W_number),
     FmtStr(W_json \o <<" ">> \o W_bool),
     FmtStr(W_object \o W_int),
     FmtStr(<<"s", "t", "r", "i", "n", "g">>),
     FmtList(<<>>),
     FmtList(<<W_number>>)}

InitFmt ==
    /\ pc = "idle"
    /\ now = 0
    /\ start_time = 0
    /\ current_url = None
    /\ results = <<>>
    /\ quiz_info = None
    /\ file_data = <<>>
    /\ answer = NoAnswer
    /\ raised = FALSE
    /\ stop = "none"
    /\ iter = 0
    /\ iter_start = 0
    /\ render_url = None
    /\ visited = <<>>
    /\ submits = <<>>
    /\ calls = <<>>
    /\ email = None
    /\ secret = None
    /\ err = "none"
    /\ fmt_pc = "call"
    /\ fmt_text \in FmtTexts
    /\ fmt_format \in FmtFormats
    /\ fmt_result = None
    /\ app_pc = "idle"
    /\ app_body = None
    /\ app_status = None
    /\ app_calls = 0
    /\ app_args = None
    /\ NoChains

\* format_answer(fmt_text, fmt_format) runs
FormatAnswerCall ==
    /\ fmt_pc = "call"
    /\ fmt_result' = format_answer(fmt_text, fmt_format)
    /\ fmt_pc' = "done"
    /\ UNCHANGED <<chainvars, fmt_text, fmt_format, appvars, twovars>>

NextFmt == FormatAnswerCall

SpecFmt == InitFmt /\ [][NextFmt]_vars

(***************************************************************************)
(* handle_quiz of app.py: one POST to /quiz.  The chain is the call         *)
(* loop.run_until_complete(quiz_solver.solve_quiz_chain(...)), which        *)
(* returns the list of results.                                             *)
(***************************************************************************)

\* the body of a request sent as application/json: no JSON ("invalid"), a
\* falsy JSON value (null, {}, [], 0, "": "falsy"), a truthy value that is
\* no object ("other"), or a non-empty object, here with what data.get
\* gives for its keys (None for a missing key or null)
RequestBodies ==
    [kind : {"invalid", "falsy", "other"}, email : {None}, secret : {None}, url : {None}]
        \cup [kind : {"dict"},
              email : Emails \cup {"", None},
              secret : {SECRET, "wrong", "", None},
              url : Urls \cup {"", None}]

\* request.get_json(): BadRequest is raised for a body that is no JSON
GetJsonRaises(body) == body.kind = "invalid"

\* faulty variant of the validation: the secret is not compared
CheckRequestNoSecret(data) ==
    IF data.kind = "falsy" THEN [status |-> 400, call |-> FALSE]
    ELSE IF data.kind # "dict" THEN [status |-> 500, call |-> FALSE]
    ELSE IF ~(Truthy(data.email) /\ Truthy(data.secret) /\ Truthy(data.url))
    THEN [status |-> 400, call |-> FALSE]
    ELSE [status |-> 200, call |-> TRUE]

\* lines 212-228: what the handler does with the decoded body; data.get of
\* a value that is no dict raises AttributeError, which line 247 turns
\* into 500
CheckRequest(data) ==
    IF data.kind = "falsy" THEN [status |-> 400, call |-> FALSE]
    ELSE IF data.kind # "dict" THEN [status |-> 500, call |-> FALSE]
    ELSE IF ~(Truthy(data.email) /\ Truthy(data.secret) /\ Truthy(data.url))
    THEN [status |-> 400, call |-> FALSE]
    ELSE IF data.secret # SECRET THEN [status |-> 403, call |-> FALSE]
    ELSE [status |-> 200, call |-> TRUE]

\* what solve_quiz_chain may return to the handler
ChainResults == {<<>>} \cup {<<r>> : r \in Responses}

InitApp ==
    /\ pc = "idle"
    /\ now = 0
    /\ start_time = 0
    /\ current_url = None
    /\ results = <<>>
    /\ quiz_info = None
    /\ file_data = <<>>
    /\ answer = NoAnswer
    /\ raised = FALSE
    /\ stop = "none"
    /\ iter = 0
    /\ iter_start = 0
    /\ render_url = None
    /\ visited = <<>>
    /\ submits = <<>>
    /\ calls = <<>>
    /\ email = None
    /\ secret = None
    /\ err = "none"
    /\ fmt_pc = "idle"
    /\ fmt_text = <<>>
    /\ fmt_format = FmtNone
    /\ fmt_result = None
    /\ app_pc = "received"
    /\ app_body \in RequestBodies
    /\ app_status = None
    /\ app_calls = 0
    /\ app_args = None
    /\ NoChains

\* handle_quiz up to its response or to the call of the chain
HandleQuiz ==
    /\ app_pc = "received"
    /\ IF GetJsonRaises(app_body)
       THEN /\ app_status' = 500                  \* except Exception, line 247
            /\ app_pc' = "responded"
            /\ UNCHANGED <<app_calls, app_args>>
       ELSE LET c == CheckRequest(app_body)
            IN  IF c.call
                THEN /\ app_pc' = "solving"
                     /\ app_calls' = app_calls + 1
                     /\ app_args' = <<app_body.email, app_body.secret, app_body.url>>
                     /\ UNCHANGED app_status
                ELSE /\ app_status' = c.status
                     /\ app_pc' = "responded"
                     /\ UNCHANGED <<app_calls, app_args>>
    /\ UNCHANGED <<chainvars, fmtvars, app_body, twovars>>

\* run_until_complete returns the results of the chain; lines 238-245
ChainReturns ==
    /\ app_pc = "solving"
    /\ \E rs \in ChainResults : results' = rs
    /\ app_status' = 200
    /\ app_pc' = "responded"
    /\ UNCHANGED <<pc, now, start_time, current_url, quiz_info, file_data, answer,
                   raised, stop, iter, iter_start, render_url, visited, submits,
                   calls, email, secret, err, fmtvars, app_body, app_calls,
                   app_args, twovars>>

NextApp == HandleQuiz \/ ChainReturns

SpecApp == InitApp /\ [][NextApp]_vars

(***************************************************************************)
(* Invocations of solve_quiz_chain side by side: handle_quiz runs each on  *)
(* an event loop of its own (app.py lines 234-236) in the thread of its    *)
(* request, all on the one quiz_solver of line 23.  A step here is what    *)
(* one invocation does between two suspension points of its loop: the      *)
(* whole of solve_single_quiz is one awaited call (its steps are those of  *)
(* Spec; it has no state but its arguments and locals).  `now` is the      *)
(* clock all invocations read.                                             *)
(***************************************************************************)
\* most iterations of one invocation
MaxSolved == 2

\* what a submission may be answered with; `to` is the invocation whose
\* submission it answers
TwoResponses(c) ==
    [kind : {"dict"}, correct : {"true", "false"}, url : {"u1", None}, to : {c}]
        \cup {[kind |-> "list", correct |-> None, url |-> None, to |-> c]}

\* faulty variant: the state of the chain kept on the instance
FrameOnInstance(c) == 1

\* lines 275-277: start_time, current_url and results are locals of the
\* invocation
Frame(c) == c

InitTwo ==
    /\ pc = "idle"
    /\ now = 0
    /\ start_time = 0
    /\ current_url = None
    /\ results = <<>>
    /\ quiz_info = None
    /\ file_data = <<>>
    /\ answer = NoAnswer
    /\ raised = FALSE
    /\ stop = "none"
    /\ iter = 0
    /\ iter_start = 0
    /\ render_url = None
    /\ visited = <<>>
    /\ submits = <<>>
    /\ calls = <<>>
    /\ email = None
    /\ secret = None
    /\ err = "none"
    /\ fmt_pc = "idle"
    /\ fmt_text = <<>>
    /\ fmt_format = FmtNone
    /\ fmt_result = None
    /\ app_pc = "idle"
    /\ app_body = None
    /\ app_status = None
    /\ app_calls = 0
    /\ app_args = None
    /\ frames = [c \in Chains |-> NoFrame]
    /\ chain_pc = [c \in Chains |-> "idle"]
    /\ chain_args \in [Chains -> [email : Emails, url : Urls]]
    /\ chain_own = [c \in Chains |-> [began |-> 0, own |-> <<>>]]
    /\ chain_ret = [c \in Chains |-> [done |-> FALSE, results |-> <<>>]]

TwoUnchanged ==
    UNCHANGED <<pc, start_time, current_url, results, quiz_info, file_data, answer,
                raised, stop, iter, iter_start, render_url, visited, submits,
                calls, email, secret, err, fmtvars, appvars, chain_args>>

\* line 312: return results
ChainReturn(c, fs) == [chain_ret EXCEPT ![c] = [done |-> TRUE, results |-> fs[Frame(c)].results]]

\* lines 275-277: the invocation begins
ChainBegins(c) ==
    /\ chain_pc[c] = "idle"
    /\ frames' = [frames EXCEPT ![Frame(c)] =
                      [start_time |-> now, current_url |-> chain_args[c].url,
                       results |-> <<>>]]
    /\ chain_pc' = [chain_pc EXCEPT ![c] = "Loop"]
    /\ chain_own' = [chain_own EXCEPT ![c].began = now]
    /\ UNCHANGED <<now, chain_ret>>
    /\ TwoUnchanged

\* line 279: the loop condition; line 282 calls solve_single_quiz
ChainGuard(c) ==
    /\ chain_pc[c] = "Loop"
    /\ IF LoopCondition(frames[Frame(c)].current_url, now - frames[Frame(c)].start_time)
       THEN /\ Len(chain_own[c].own) < MaxSolved
            /\ chain_pc' = [chain_pc EXCEPT ![c] = "Solving"]
            /\ UNCHANGED chain_ret
       ELSE /\ chain_pc' = [chain_pc EXCEPT ![c] = "Terminated"]
            /\ chain_ret' = ChainReturn(c, frames)
    /\ UNCHANGED <<now, frames, chain_own>>
    /\ TwoUnchanged

\* lines 283-305 with result the response solve_single_quiz returned
ChainDecides(c, result) ==
    LET appended == [frames EXCEPT ![Frame(c)].results =
                         AppendResult(frames[Frame(c)].results, result)]
    IN  IF result.kind = "dict"
        THEN LET dec == Decide(result, appended[Frame(c)].current_url)
             IN  /\ frames' = [appended EXCEPT ![Frame(c)].current_url = dec.url]
                 /\ chain_pc' = [chain_pc EXCEPT
                                     ![c] = IF dec.next = "loop" THEN "Loop" ELSE "Terminated"]
                 /\ chain_ret' = IF dec.next = "loop" THEN chain_ret
                                 ELSE ChainReturn(c, appended)
        ELSE /\ frames' = appended                 \* result.get raises, line 307
             /\ chain_pc' = [chain_pc EXCEPT ![c] = "Terminated"]
             /\ chain_ret' = ChainReturn(c, appended)

\* solve_single_quiz returns the response to its submission, or raises
SolveReturn(c) ==
    /\ chain_pc[c] = "Solving"
    /\ \E d \in Durations :
        /\ now' = now + d
        /\ \/ \E result \in TwoResponses(c) :
                /\ ChainDecides(c, result)
                /\ chain_own' = [chain_own EXCEPT ![c].own = Append(@, result)]
           \/ /\ chain_pc' = [chain_pc EXCEPT ![c] = "Terminated"]
              /\ chain_ret' = ChainReturn(c, frames)
              /\ UNCHANGED <<frames, chain_own>>
    /\ TwoUnchanged

NextTwo ==
    \/ \E c \in Chains : ChainBegins(c)
    \/ \E c \in Chains : ChainGuard(c)
    \/ \E c \in Chains : SolveReturn(c)

SpecTwo == InitTwo /\ [][NextTwo]_vars

(***************************************************************************)
(* Properties.                                                             *)
(***************************************************************************)
StepErrors == {"render", "parse", "fetch", "answer", "submit"}
\* the responses of the completed submit calls, in order
SubmitResponses == [i \in 1..Len(submits) |-> submits[i].resp]
HasNextUrl(r) == r.kind = "dict" /\ Truthy(r.url)

\* C1: no exception leaves solve_quiz_chain, whatever the external steps
\* do: when the loop has ended, for an error too, the call returns the
\* sequence of results.
C1_NeverRaises ==
    /\ ~raised
    /\ pc = "Terminated" => stop # "none" /\ results \in Seq(Responses)
    /\ err # "none" => pc = "Terminated"

C1_Witness ==
    pc = "Terminated" /\ err \in {"submit", "decide"} /\ Len(results) >= 1

\* C2: when a step from render to submit raises in iteration k the loop has
\* stopped, no later iteration starts, and the results are those of the
\* iterations 1..k-1: nothing is appended for the failing one.
C2_ErrorStopsLoop ==
    err \in StepErrors =>
        /\ pc = "Terminated"
        /\ Len(results) = iter - 1
        /\ results = SubmitResponses
        /\ Len(visited) = iter

C2_Witness ==
    err = "render" /\ iter = 2 /\ Len(results) = 1 /\ pc = "Terminated"

\* C3: no download, answer or submit call is in flight for a quiz
\* description whose submit_url is absent or empty: the parse step fails on
\* it and the chain ends there.
C3_NoCallWithoutSubmitUrl ==
    pc \in {"Fetching", "Answering", "Submitting"} => Truthy(quiz_info.submit_url)

\* C4: a render call is never issued when the elapsed time has reached
\* max_time: the loop then ends before the iteration and returns the
\* results it has.
C4_LoopGuard ==
    /\ pc = "Rendering" => Elapsed < max_time /\ iter_start = now
    /\ iter > 0 => iter_start - start_time < max_time
    /\ stop = "budget" =>
        /\ pc = "Terminated"
        /\ Elapsed >= max_time
        /\ results = SubmitResponses
        /\ Len(visited) = Len(results)

C4_Witness ==
    stop = "budget" /\ Elapsed = max_time /\ Len(results) >= 1

\* C5: the budget is looked at between iterations only: every iteration
\* the budget ends has run to its end and its result is appended, and when
\* the loop has stopped the elapsed time is past max_time by less than the
\* last iteration took.
C5_BudgetAtBoundaries ==
    /\ stop = "budget" => Len(results) = iter /\ err = "none"
    /\ pc = "Terminated" =>
           IF iter = 0 THEN Elapsed < max_time
           ELSE Elapsed - max_time < now - iter_start

C5_Witness ==
    /\ pc = "Terminated"
    /\ stop = "budget"
    /\ iter_start - start_time < max_time
    /\ Elapsed > max_time
    /\ Len(results) = iter

\* what follows the i-th submit, whose response r names the next URL: the
\* result is appended, and the next call is the render of that URL, or the
\* loop waits at its condition with that URL, or the budget has ended it
FollowsNextUrl(i, r) ==
    /\ Len(results) >= i
    /\ results[i] = r
    /\ IF i < Len(visited)
       THEN visited[i + 1] = r.url
       ELSE /\ current_url = r.url
            /\ \/ pc = "Loop"
               \/ pc = "Terminated" /\ stop = "budget" /\ Elapsed >= max_time

\* C6: after a response with correct true and a next URL X the result is
\* appended, current_url is X and the next call of the chain, if the budget
\* allows one, is render(X).
C6_CorrectFollowsNextUrl ==
    /\ \A i \in 1..Len(submits) :
        LET r == submits[i].resp
        IN  HasNextUrl(r) /\ r.correct = "true" => FollowsNextUrl(i, r)
    /\ pc = "Rendering" => render_url = Last(visited) /\ render_url = current_url

C6_Witness ==
    /\ pc = "Rendering"
    /\ Len(submits) = 1
    /\ submits[1].resp.correct = "true"
    /\ submits[1].quiz_url = "u1"
    /\ render_url = "u2"

\* C7: after a response with correct false and a next URL the result is
\* appended, the chain does not end for the incorrect answer, and the next
\* iteration renders the next URL, not the question just answered.
C7_IncorrectFollowsNextUrl ==
    \A i \in 1..Len(submits) :
        LET r == submits[i].resp
        IN  HasNextUrl(r) /\ r.correct = "false" =>
                /\ FollowsNextUrl(i, r)
                /\ i = Len(submits) => stop \notin {"incorrect", "complete"}
                /\ pc = "Rendering" /\ i = Len(submits) => render_url = r.url

C7_Witness ==
    /\ pc = "Rendering"
    /\ Len(submits) = 1
    /\ submits[1].resp.correct = "false"
    /\ submits[1].quiz_url = "u1"
    /\ render_url = "u2"

\* C8: a response without next URL (absent or empty), correct or not, is
\* appended, one result for its iteration, and ends the chain: it is the
\* last submit, and no render follows it.
C8_NoNextUrlEnds ==
    \A i \in 1..Len(submits) :
        LET r == submits[i].resp
        IN  r.kind = "dict" /\ ~Truthy(r.url) =>
                /\ i = Len(submits)
                /\ results = SubmitResponses
                /\ Len(results) = iter
                /\ Len(visited) = i
                /\ pc = "Terminated"
                /\ stop \in {"complete", "incorrect"}

C8_Witness ==
    /\ pc = "Terminated"
    /\ Len(results) = 2
    /\ Last(results).correct = "false"
    /\ Last(results).url = ""

\* C9: results only grows at its end, and in every state it is the
\* responses of the completed submits in the order of the visited URLs,
\* the i-th being the response for the i-th URL rendered.
C9_ResultsInVisitOrder ==
    /\ [](/\ results = SubmitResponses
          /\ Len(results) <= Len(visited)
          /\ \A i \in 1..Len(submits) : submits[i].quiz_url = visited[i])
    /\ [][Len(results') >= Len(results)
          /\ SubSeq(results', 1, Len(results)) = results]_vars

C9_Witness ==
    /\ pc = "Terminated"
    /\ Len(results) = 2
    /\ results[1] # results[2]
    /\ visited[1] # visited[2]

\* what format_answer looks at for the number branch
IsNumberFormat(f) ==
    f.t = "str" /\ (Contains(Lower(f.s), W_number) \/ Contains(Lower(f.s), W_int))

\* numbers[0] cut to an integer: its digits before the point, with its sign
Truncated(t) ==
    LET n == FirstNumber(t)
    IN  PyInt(n.neg /\ ~IsZero(n.int), n.int)

\* C10: with a format that names number or int, format_answer returns the
\* first numeric token of the text cut to an integer (toward zero), and the
\* text itself when it holds no numeric token.
C10_NumberTruncated ==
    fmt_pc = "done" /\ IsNumberFormat(fmt_format) =>
        fmt_result = IF HasNumber(fmt_text)
                     THEN Returned(Truncated(fmt_text))
                     ELSE Returned(PyStr(fmt_text))

\* what format_answer looks at for the boolean branch, which it reaches
\* when the format does not name a number
IsBooleanFormat(f) ==
    /\ f.t = "str"
    /\ ~IsNumberFormat(f)
    /\ Contains(Lower(f.s), W_boolean) \/ Contains(Lower(f.s), W_bool)

\* word w stands in text t at some place, letter case aside
HasWord(t, w) ==
    \E i \in 1..(Len(t) - Len(w) + 1) :
        \A j \in 1..Len(w) : LowerChar(t[i + j - 1]) = w[j]

\* C11: with a format that names boolean or bool, format_answer returns
\* true when the text holds "true" or "yes" (letter case aside, anywhere in
\* it), else false when it holds "false" or "no", else the text itself: a
\* text that holds both kinds of word gives true.
C11_BooleanWords ==
    fmt_pc = "done" /\ IsBooleanFormat(fmt_format) =>
        fmt_result =
            IF HasWord(fmt_text, W_true) \/ HasWord(fmt_text, W_yes)
            THEN Returned(PyBool(TRUE))
            ELSE IF HasWord(fmt_text, W_false) \/ HasWord(fmt_text, W_no)
            THEN Returned(PyBool(FALSE))
            ELSE Returned(PyStr(fmt_text))

C11_Witness ==
    /\ fmt_pc = "done"
    /\ IsBooleanFormat(fmt_format)
    /\ HasWord(fmt_text, W_true)
    /\ HasWord(fmt_text, W_no)
    /\ fmt_result = Returned(PyBool(TRUE))

\* what format_answer looks at for the json branch, which it reaches when
\* the format names neither a number nor a boolean
IsJsonFormat(f) ==
    /\ f.t = "str"
    /\ ~IsNumberFormat(f)
    /\ ~IsBooleanFormat(f)
    /\ Contains(Lower(f.s), W_json) \/ Contains(Lower(f.s), W_object)

\* the text is a JSON document / the decoding of the text fails
IsJson(t) == JsonLoads(t).ok /\ JsonLoads(t).std
DecodeFails(t) == ~JsonLoads(t).ok

\* the object {"count": 3}
V_count ==
    [k |-> "object",
     map |-> (<<"c", "o", "u", "n", "t">> :> [k |-> "int", neg |-> FALSE, mag |-> <<3>>])]

\* C12: with a format that names json or object, format_answer returns the
\* decoded value of a text that is a JSON document as a whole ({"count": 3}
\* gives the object with count 3), and when the decoding fails it returns
\* the text itself and does not raise.
C12_JsonDecoded ==
    fmt_pc = "done" /\ IsJsonFormat(fmt_format) =>
        /\ IsJson(fmt_text) => fmt_result = Returned(PyJson(JsonLoads(fmt_text).val))
        /\ DecodeFails(fmt_text) => fmt_result = Returned(PyStr(fmt_text))
        /\ fmt_text = T_count => fmt_result = Returned(PyJson(V_count))
        /\ fmt_text = T_not_valid => fmt_result = Returned(PyStr(T_not_valid))

C12_Witness ==
    /\ fmt_pc = "done"
    /\ fmt_format = FmtStr(W_object)
    /\ fmt_text = T_not_valid
    /\ DecodeFails(fmt_text)
    /\ fmt_result = Returned(PyStr(T_not_valid))

\* the format selects no branch: it is no text, or a text without keyword
NamesNoBranch(f) ==
    \/ f.t # "str"
    \/ ~IsNumberFormat(f) /\ ~IsBooleanFormat(f) /\ ~IsJsonFormat(f)

\* C13: format_answer never raises, whatever the text and whatever value
\* the quiz description holds as answer_format (none, empty, a text
\* without keyword, a JSON value that is no text), and it returns the text
\* itself when the format selects no branch.
C13_FormatTotal ==
    fmt_pc = "done" =>
        /\ ~fmt_result.raised
        /\ NamesNoBranch(fmt_format) => fmt_result = Returned(PyStr(fmt_text))

\* the fields of the request: all three there / the secret is the
\* configured one
AllPresent(b) ==
    b.kind = "dict" /\ b.email \notin {"", None} /\ b.secret \notin {"", None}
        /\ b.url \notin {"", None}
Accepted(b) == AllPresent(b) /\ b.secret = SECRET

\* C14: solve_quiz_chain is called only for a request with email, secret
\* and url whose secret is the configured one, once, with these values, and
\* the response, 200, is sent after it returned; a request with the three
\* fields and another secret gets 403 and an object without one of the
\* fields 400, both without a call of the chain.
C14_OnlyAcceptedInvokes ==
    /\ app_calls <= 1
    /\ app_calls = 1 =>
           Accepted(app_body) /\ app_args = <<app_body.email, SECRET, app_body.url>>
    /\ app_pc = "solving" => app_calls = 1 /\ app_status = None
    /\ app_pc = "responded" =>
           /\ Accepted(app_body) => app_calls = 1 /\ app_status = 200
           /\ AllPresent(app_body) /\ app_body.secret # SECRET =>
                  app_calls = 0 /\ app_status = 403
           /\ app_body.kind = "dict" /\ ~AllPresent(app_body) =>
                  app_calls = 0 /\ app_status = 400

C14_Witness ==
    /\ app_pc = "responded"
    /\ AllPresent(app_body)
    /\ app_body.secret = "wrong"
    /\ app_status = 403
    /\ app_calls = 0

\* C15: a request whose body is no JSON is answered with 400, and the
\* chain is not called for it.
C15_InvalidJson400 ==
    app_pc = "responded" /\ app_body.kind = "invalid" =>
        app_status = 400 /\ app_calls = 0

\* the history of the iteration: what was parsed from its page, the calls
\* that have an outcome, the positions of its calls of one step
CallStates == {"Rendering", "Parsing", "Fetching", "Answering", "Submitting"}
Parsed == calls[2].out
Steps(name) == {i \in 1..Len(calls) : calls[i].step = name}
Downloads == {i \in Steps("fetch") : calls[i].state # "pending"}
Is2xx(status) == status \in 200..299

\* C16: a download whose response has a status in 200..299 succeeds (its
\* payload is returned), and one with any other status is a fetch error.
C16_Any2xxSucceeds ==
    \A i \in Downloads :
        calls[i].out # NoResponse =>
            (Is2xx(calls[i].out) <=> calls[i].state = "ok")

\* C17: the file URLs are downloaded one at a time in the order of the
\* list; after a download that failed nothing more is called in the
\* iteration: no later download, no answer, no submit, and the chain ends
\* with the fetch error; the answer call is made with the payloads of all
\* the file URLs, each downloaded.
C17_SequentialFailFast ==
    /\ \A i \in Steps("fetch") :
           /\ calls[2].state = "ok"
           /\ Cardinality({j \in Steps("fetch") : j <= i}) <= Len(Parsed.file_urls)
           /\ calls[i].arg =
                  Parsed.file_urls[Cardinality({j \in Steps("fetch") : j <= i})]
           /\ i < Len(calls) => calls[i].state # "pending"
           /\ calls[i].state = "failed" =>
                  /\ i = Len(calls)
                  /\ pc = "Terminated"
                  /\ err = "fetch"
    /\ \A i \in Steps("answer") :
           /\ calls[i].arg = Parsed.file_urls
           /\ Cardinality(Steps("fetch")) = Len(Parsed.file_urls)
           /\ \A j \in Steps("fetch") : j < i /\ calls[j].state = "ok"
    /\ pc = "Answering" => file_data = quiz_info.file_urls
    /\ err = "fetch" =>
           /\ Steps("answer") = {}
           /\ Steps("submit") = {}
           /\ Len(submits) = iter - 1
           /\ Len(results) = iter - 1

C17_Witness ==
    /\ err = "fetch"
    /\ Len(calls) = 3
    /\ calls[3].state = "failed"
    /\ calls[3].arg = "f1"
    /\ Len(Parsed.file_urls) = 2
    /\ iter = 2

\* C18: a response to the submission that is no object with a boolean
\* `correct` is a submit error: it is not appended to results and is not
\* taken for an incorrect answer.
Decodable(result) == result.kind = "dict" /\ result.correct \in {"true", "false"}
C18_UndecodableIsSubmitError ==
    /\ \A i \in 1..Len(results) : Decodable(results[i])
    /\ \A i \in 1..Len(submits) : Decodable(submits[i].resp)

\* C19: the submission of an iteration is posted to the submit URL parsed
\* from the page of the iteration, with the email and the secret the chain
\* was given, the URL rendered in the iteration as `url`, and as `answer`
\* the formatted text the answer call of the iteration returned.
C19_SubmitPayload ==
    \A i \in Steps("submit") :
        /\ calls[1].step = "render"
        /\ calls[1].arg = visited[iter]
        /\ calls[2].step = "parse"
        /\ calls[i - 1].step = "answer"
        /\ calls[i].arg =
               [to |-> Parsed.submit_url,
                email |-> email,
                secret |-> secret,
                url |-> calls[1].arg,
                answer |-> format_answer(calls[i - 1].out, Parsed.answer_format).value]

C19_Witness ==
    /\ pc = "Submitting"
    /\ iter = 2
    /\ visited = <<"u1", "u2">>
    /\ Last(calls).arg.to = "s1"
    /\ Last(calls).arg.url = "u2"
    /\ Last(calls).arg.email = email
    /\ Last(calls).arg.answer.type = "int"

\* the steps that may follow one another in an iteration
StepOrder ==
    {<<"render", "parse">>, <<"parse", "fetch">>, <<"parse", "answer">>,
     <<"fetch", "fetch">>, <<"fetch", "answer">>, <<"answer", "submit">>}

\* C20: the calls of an iteration are made in the order render, parse,
\* fetch (any number), answer, submit, each after the call before it has
\* returned without error; only the last call can be in flight, and is
\* exactly while the chain waits for it; an iteration has at most one
\* render, parse, answer and submit; a render is made with the URL the
\* branches chose for the response of the iteration before, every
\* iteration before having had its response appended.
C20_StrictOrder ==
    /\ Len(calls) > 0 => calls[1].step = "render"
    /\ \A i \in 2..Len(calls) :
           /\ <<calls[i - 1].step, calls[i].step>> \in StepOrder
           /\ calls[i - 1].state = "ok"
    /\ \A n \in {"render", "parse", "answer", "submit"} : Cardinality(Steps(n)) <= 1
    /\ pc \in CallStates <=> (Len(calls) > 0 /\ Last(calls).state = "pending")
    /\ Len(calls) > 0 =>
           /\ Len(submits) \in {iter - 1, iter}
           /\ Len(submits) = iter => err = "decide"
           /\ \A k \in 1..(iter - 1) : submits[k].quiz_url = visited[k]
           /\ iter > 1 =>
                  calls[1].arg =
                      Decide(submits[iter - 1].resp, visited[iter - 1]).url

C20_Witness ==
    /\ pc = "Submitting"
    /\ iter = 2
    /\ Len(calls) = 6
    /\ Cardinality(Steps("fetch")) = 2
    /\ calls[5].state = "ok"

\* the least time an iteration takes when it takes time
MinIteration == CHOOSE d \in Durations \ {0} : \A e \in Durations \ {0} : d <= e

\* C21: when every iteration takes time and every call returns or raises,
\* the iterations started are bounded by the budget (each but the first is
\* started with less than max_time elapsed, the ones before having taken
\* MinIteration at least) and solve_quiz_chain returns, whatever URLs the
\* responses name.
C21_Terminates ==
    /\ []((iter - 1) * MinIteration < max_time)
    /\ <>(pc = "Terminated" /\ ~raised)

\* the response named the URL just solved, and the budget ended the chain
C21_Witness ==
    /\ pc = "Terminated"
    /\ stop = "budget"
    /\ ~raised
    /\ iter = 2
    /\ visited = <<"u1", "u1">>
    /\ Len(results) = 2

\* the URLs an invocation can be at: the one it was given, or one named by a
\* response to a submission of its own
OwnUrls(c) ==
    {chain_args[c].url} \cup {chain_own[c].own[i].url : i \in 1..Len(chain_own[c].own)}

\* C22: of invocations that run side by side each has its own start_time,
\* current_url and results: whatever the other does, its start_time is the
\* time it began, its current_url its initial URL or one a response to its
\* own submission named, its results the responses to its own submissions
\* in their order and nothing else, and these are what it returns.
C22_ChainsIndependent ==
    \A c \in Chains :
        /\ chain_pc[c] # "idle" =>
               /\ frames[Frame(c)].start_time = chain_own[c].began
               /\ frames[Frame(c)].current_url \in OwnUrls(c)
               /\ frames[Frame(c)].results = chain_own[c].own
               /\ \A i \in 1..Len(frames[Frame(c)].results) :
                      frames[Frame(c)].results[i].to = c
        /\ chain_pc[c] = "idle" => frames[Frame(c)] = NoFrame
        /\ chain_ret[c].done <=> chain_pc[c] = "Terminated"
        /\ chain_ret[c].done =>
               /\ chain_ret[c].results = chain_own[c].own
               /\ \A i \in 1..Len(chain_ret[c].results) : chain_ret[c].results[i].to = c

\* both ran at once, began at different times on different URLs, and each
\* returned the responses to its own two submissions
C22_Witness ==
    /\ chain_ret[1].done
    /\ chain_ret[2].done
    /\ Len(chain_ret[1].results) = 2
    /\ Len(chain_ret[2].results) = 2
    /\ chain_args[1].url # chain_args[2].url
    /\ chain_own[1].began < chain_own[2].began
    /\ chain_own[2].began < max_time
    /\ chain_ret[1].results[2].url = None
    /\ chain_ret[2].results[1].url = "u1"

\* the keywords the format holds, letter case aside
NamesNumber(f) == Contains(Lower(f.s), W_number) \/ Contains(Lower(f.s), W_int)
NamesBoolean(f) == Contains(Lower(f.s), W_boolean) \/ Contains(Lower(f.s), W_bool)
NamesJson(f) == Contains(Lower(f.s), W_json) \/ Contains(Lower(f.s), W_object)
\* the one branch a format selects
Selected(f) ==
    IF NamesNumber(f) THEN "int"
    ELSE IF NamesBoolean(f) THEN "bool"
    ELSE IF NamesJson(f) THEN "json"
    ELSE "str"
\* the text holds nothing the branch looks for
NoDigit(t) == \A i \in 1..Len(t) : \A d \in 1..Len(DigitChars) : t[i] # DigitChars[d]
NoBooleanWord(t) ==
    ~(HasWord(t, W_true) \/ HasWord(t, W_yes) \/ HasWord(t, W_false) \/ HasWord(t, W_no))
NoMatch(f, t) ==
    \/ Selected(f) = "int" /\ NoDigit(t)
    \/ Selected(f) = "bool" /\ NoBooleanWord(t)
    \/ Selected(f) = "json" /\ DecodeFails(t)
    \/ Selected(f) = "str"

\* C23: for a format that is a non-empty string format_answer takes one
\* branch: number/int if the format names it, else boolean/bool if named,
\* else json/object if named; what it returns is a value of that branch or
\* the text itself, and the text itself when the branch finds nothing in
\* the text, whatever else the format names.
C23_BranchPriority ==
    fmt_pc = "done" /\ fmt_format.t = "str" /\ ~FmtFalsy(fmt_format) =>
        /\ ~fmt_result.raised
        /\ fmt_result.value.type \in {Selected(fmt_format), "str"}
        /\ fmt_result.value.type = "str" => fmt_result.value = PyStr(fmt_text)
        /\ NoMatch(fmt_format, fmt_text) => fmt_result.value = PyStr(fmt_text)

\* the format names boolean and number, the text holds yes and true and no
\* digit: the text is returned
C23_Witness ==
    /\ fmt_pc = "done"
    /\ fmt_format = FmtStr(W_boolean \o <<" ">> \o W_number)
    /\ HasWord(fmt_text, W_true)
    /\ NoDigit(fmt_text)
    /\ fmt_result = Returned(PyStr(fmt_text))

====
